---- MODULE Spec2Model ----
(***************************************************************************)
(* hacheck: the protocol checkers of hacheck/checker.py (spool, http,      *)
(* https, tcp, mysql, smtp), the result cache that decorates them, and the *)
(* peers, timers and collaborators they talk to.                           *)
(***************************************************************************)
EXTENDS Integers, Sequences, FiniteSets, TLC

(* ------------------------------------------------------------------ *)
(* Bounds of the model                                                 *)
(* ------------------------------------------------------------------ *)
NumCallers == 2
MaxCalls == 3
MaxClock == 15
TickStep == 5
MaxSends == 2

(* ------------------------------------------------------------------ *)
(* Program constants                                                   *)
(* ------------------------------------------------------------------ *)
TIMEOUT == 10

TTL == 8

None == "None"

\* the truth value of a string or None: None and '' are false
truthy(v) == v \notin {None, ""}

Callers == 1..NumCallers

(* ------------------------------------------------------------------ *)
(* Byte strings are sequences of integers 0..255                       *)
(* ------------------------------------------------------------------ *)
CR == 13
LF == 10

\* index of the first b'\r\n' in buf at or after position i, 0 when there is none
RECURSIVE FindCRLF(_, _)
FindCRLF(buf, i) ==
    IF i + 1 > Len(buf) THEN 0
    ELSE IF buf[i] = CR /\ buf[i + 1] = LF THEN i
    ELSE FindCRLF(buf, i + 1)

HasLine(buf) == FindCRLF(buf, 1) # 0

\* what read_until(b'\r\n') hands back: everything up to and including the delimiter
ReadUntilLine(buf) == SubSeq(buf, 1, FindCRLF(buf, 1) + 1)

\* what stays in the read buffer afterwards
ReadUntilRest(buf) == SubSeq(buf, FindCRLF(buf, 1) + 2, Len(buf))

IsCont(b) == b >= 128 /\ b <= 191

\* number of bytes of the UTF-8 sequence starting at position i, 0 when it is invalid
Utf8SeqLen(bs, i) ==
    LET b == bs[i]
        n == Len(bs)
        c1 == IF i + 1 <= n THEN bs[i + 1] ELSE 0
        c2 == IF i + 2 <= n THEN bs[i + 2] ELSE 0
        c3 == IF i + 3 <= n THEN bs[i + 3] ELSE 0
    IN  IF b <= 127 THEN 1
        ELSE IF b >= 194 /\ b <= 223 THEN (IF IsCont(c1) THEN 2 ELSE 0)
        ELSE IF b = 224 THEN (IF c1 >= 160 /\ c1 <= 191 /\ IsCont(c2) THEN 3 ELSE 0)
        ELSE IF b = 237 THEN (IF c1 >= 128 /\ c1 <= 159 /\ IsCont(c2) THEN 3 ELSE 0)
        ELSE IF b >= 225 /\ b <= 239 THEN (IF IsCont(c1) /\ IsCont(c2) THEN 3 ELSE 0)
        ELSE IF b = 240 THEN (IF c1 >= 144 /\ c1 <= 191 /\ IsCont(c2) /\ IsCont(c3) THEN 4 ELSE 0)
        ELSE IF b >= 241 /\ b <= 243 THEN (IF IsCont(c1) /\ IsCont(c2) /\ IsCont(c3) THEN 4 ELSE 0)
        ELSE IF b = 244 THEN (IF c1 >= 128 /\ c1 <= 143 /\ IsCont(c2) /\ IsCont(c3) THEN 4 ELSE 0)
        ELSE 0

\* the code point of the valid UTF-8 sequence of k bytes starting at position i
Utf8CodePoint(bs, i, k) ==
    IF k = 1 THEN bs[i]
    ELSE IF k = 2 THEN (bs[i] - 192) * 64 + (bs[i + 1] - 128)
    ELSE IF k = 3 THEN (bs[i] - 224) * 4096 + (bs[i + 1] - 128) * 64 + (bs[i + 2] - 128)
    ELSE (bs[i] - 240) * 262144 + (bs[i + 1] - 128) * 4096
         + (bs[i + 2] - 128) * 64 + (bs[i + 3] - 128)

\* bytes.decode('utf-8'): the code points, or <<-1>> for UnicodeDecodeError
RECURSIVE Utf8From(_, _)
Utf8From(bs, i) ==
    IF i > Len(bs) THEN << >>
    ELSE LET k == Utf8SeqLen(bs, i)
         IN  IF k = 0 THEN << -1 >>
             ELSE LET rest == Utf8From(bs, i + k)
                  IN  IF rest = << -1 >> THEN << -1 >>
                      ELSE << Utf8CodePoint(bs, i, k) >> \o rest

DecodeError == << -1 >>

decode_utf8(bs) == Utf8From(bs, 1)

\* str.isspace() of one code point
IsSpace(cp) ==
    \/ cp >= 9 /\ cp <= 13
    \/ cp >= 28 /\ cp <= 32
    \/ cp \in {133, 160, 5760, 8232, 8233, 8239, 8287, 12288}
    \/ cp >= 8192 /\ cp <= 8202

\* str.split() with no argument: the maximal runs of non-whitespace
RECURSIVE SplitFrom(_, _, _)
SplitFrom(s, i, cur) ==
    IF i > Len(s) THEN (IF cur = << >> THEN << >> ELSE << cur >>)
    ELSE IF IsSpace(s[i])
         THEN (IF cur = << >> THEN SplitFrom(s, i + 1, << >>)
               ELSE << cur >> \o SplitFrom(s, i + 1, << >>))
         ELSE SplitFrom(s, i + 1, Append(cur, s[i]))

split(s) == SplitFrom(s, 1, << >>)

\* '221'
Str221 == << 50, 50, 49 >>

(* ------------------------------------------------------------------ *)
(* Requests, configuration, results                                    *)
(* ------------------------------------------------------------------ *)
Kinds == {"spool", "http", "https", "tcp", "mysql", "smtp"}

\* (the decorator left off check_http, off check_mysql, put on check_spool)
CacheableButHttp == {"https", "tcp", "mysql", "smtp"}
CacheableButMysql == {"http", "https", "tcp", "smtp"}
CacheableAndSpool == {"spool", "http", "https", "tcp", "mysql", "smtp"}

\* the checkers that carry the @cache.cached decorator
Cacheable == {"http", "https", "tcp", "mysql", "smtp"}

\* (redirects followed)
follow_redirects_on == TRUE

\* follow_redirects of the HTTPRequest
follow_redirects == FALSE

EmptyHeaders == [n \in {} |-> ""]

Req(kind, port, query, qp, headers) ==
    [kind |-> kind, service_name |-> "svc", port |-> port, query |-> query,
     query_params |-> qp, headers |-> headers]

InboundHeaders == [n \in {"X-Fwd", "Cookie"} |-> IF n = "X-Fwd" THEN "10.0.0.1" ELSE "sid"]

\* the calls the callers may issue
Requests ==
    { Req(k, 8080, << "/", "s" >>, "", EmptyHeaders) : k \in {"spool", "tcp", "mysql", "smtp"} }
    \cup { Req("http", 8080, << "s" >>, "a=1", InboundHeaders),
           Req("https", 8080, << "/", "s" >>, "", InboundHeaders) }

\* calls of check_http with more inbound headers
HeavyHeaders ==
    [n \in {"X-Fwd", "X-Svc", "Cookie", "User-Agent"} |->
        CASE n = "X-Fwd" -> "10.0.0.1"
          [] n = "X-Svc" -> "other"
          [] n = "Cookie" -> "sid"
          [] OTHER -> "curl"]

HeaderRequests ==
    { Req("http", 8080, << "/", "s" >>, "", h) :
          h \in {EmptyHeaders, InboundHeaders, HeavyHeaders} }

\* the configurations the process may have been started with
ConfigFull ==
    [http_headers_to_copy |-> {"X-Fwd"}, service_name_header |-> "X-Svc",
     mysql_username |-> "u", mysql_password |-> "p"]

Configs ==
    { ConfigFull,
      [http_headers_to_copy |-> {}, service_name_header |-> None,
       mysql_username |-> "u", mysql_password |-> None] }

\* more configurations of the headers: nothing copied, the service-name header also
\* on the allow-list, User-Agent on the allow-list, the service-name header set to ''
HeaderConfigs ==
    Configs
    \cup { [http_headers_to_copy |-> {"X-Fwd", "X-Svc"}, service_name_header |-> "X-Svc",
            mysql_username |-> "u", mysql_password |-> "p"],
           [http_headers_to_copy |-> {"User-Agent"}, service_name_header |-> None,
            mysql_username |-> "u", mysql_password |-> "p"],
           [http_headers_to_copy |-> {"X-Fwd"}, service_name_header |-> "",
            mysql_username |-> "u", mysql_password |-> "p"] }

Result(code, msg, args) == [code |-> code, msg |-> msg, args |-> args]

NoResult == Result(0, "", << >>)

\* an exception leaving the checker
Exc(name) == Result(-1, name, << >>)

\* dict.get(key, default)
Get(d, key, default) == IF key \in DOMAIN d THEN d[key] ELSE default

\* d1 updated with the items of d2
Update(d1, d2) ==
    [n \in DOMAIN d1 \cup DOMAIN d2 |-> IF n \in DOMAIN d2 THEN d2[n] ELSE d1[n]]

(* ------------------------------------------------------------------ *)
(* check_spool                                                         *)
(* ------------------------------------------------------------------ *)
\* what spool.is_up may answer: (up, extra_info)
SpoolEmpty == [up |-> TRUE, info |-> [n \in {} |-> ""]]

SpoolDown(info) == [up |-> FALSE, info |-> info]

SpoolStates ==
    { SpoolEmpty,
      [up |-> TRUE, info |-> [n \in {"reason"} |-> "planned"]],
      SpoolDown([n \in {"service"} |-> "svc"]),
      SpoolDown([n \in {"service", "reason"} |-> IF n = "service" THEN "svc" ELSE ""]),
      SpoolDown([n \in {"service", "creation", "expiration"} |->
                    CASE n = "service" -> "svc"
                      [] n = "creation" -> "100.0"
                      [] OTHER -> None]),
      SpoolDown([n \in {"service", "expiration", "reason"} |->
                    CASE n = "service" -> "svc"
                      [] n = "expiration" -> "200.0"
                      [] OTHER -> "maint"]),
      SpoolDown([n \in {"service", "creation", "expiration", "reason"} |->
                    CASE n = "service" -> "svc"
                      [] n = "creation" -> "100.0"
                      [] n = "expiration" -> "200.0"
                      [] OTHER -> "maint"]) }

\* (the reason clause forgotten)
check_spool_no_reason(st) ==
    LET info == st.info
        s0 == << "Service %s in down state", Get(info, "service", None) >>
        s1 == IF Get(info, "creation", None) # None
              THEN s0 \o << " since %f", info["creation"] >> ELSE s0
        s2 == IF Get(info, "expiration", None) # None
              THEN s1 \o << " until %f", info["expiration"] >> ELSE s1
    IN  IF ~st.up THEN Result(503, s2[1], Tail(s2))
        ELSE Result(200, "%s", << Get(info, "reason", "") >>)

\* the body of check_spool on the answer of spool.is_up
check_spool(st) ==
    LET info == st.info
        s0 == << "Service %s in down state", Get(info, "service", None) >>
        s1 == IF Get(info, "creation", None) # None
              THEN s0 \o << " since %f", info["creation"] >> ELSE s0
        s2 == IF Get(info, "expiration", None) # None
              THEN s1 \o << " until %f", info["expiration"] >> ELSE s1
        s3 == IF Get(info, "reason", "") \notin {"", None}
              THEN s2 \o << ": %s", info["reason"] >> ELSE s2
    IN  IF ~st.up THEN Result(503, s3[1], Tail(s3))
        ELSE Result(200, "%s", << Get(info, "reason", "") >>)

(* ------------------------------------------------------------------ *)
(* check_http_https: the outbound request                              *)
(* ------------------------------------------------------------------ *)
NormalizePath(path) ==
    IF path # << >> /\ path[1] = "/" THEN path ELSE << "/" >> \o path

\* (every inbound header copied)
HeadersOutAll(cfg, r) ==
    LET h0 == [n \in {"User-Agent"} |-> "hastate"]
        h1 == Update(h0, r.headers)
    IN  IF truthy(cfg.service_name_header)
        THEN Update(h1, [n \in {cfg.service_name_header} |-> r.service_name])
        ELSE h1

HeadersOut(cfg, r) ==
    LET h0 == [n \in {"User-Agent"} |-> "hastate"]
        copied == { n \in cfg.http_headers_to_copy : n \in DOMAIN r.headers }
        h1 == Update(h0, [n \in copied |-> r.headers[n]])
    IN  IF truthy(cfg.service_name_header)
        THEN Update(h1, [n \in {cfg.service_name_header} |-> r.service_name])
        ELSE h1

HTTPRequest(cfg, r) ==
    [scheme |-> IF r.kind = "https" THEN "https" ELSE "http",
     host |-> "127.0.0.1",
     port |-> r.port,
     path |-> NormalizePath(r.query),
     qs |-> IF truthy(r.query_params) THEN << "?", r.query_params >> ELSE << >>,
     method |-> "GET",
     headers |-> HeadersOut(cfg, r),
     request_timeout |-> TIMEOUT,
     follow_redirects |-> follow_redirects,
     validate_cert |-> FALSE]

(* ------------------------------------------------------------------ *)
(* check_http_https: the outcome of the fetch                          *)
(* ------------------------------------------------------------------ *)
HttpCodes == {200, 302, 503}

HttpBodies == {"", "body"}

\* what `yield http_client.fetch(request)` gives: a response, or an exception raised
NoFetch == [type |-> "none", code |-> 0, has_response |-> FALSE, body |-> ""]
FetchResponse(code, body) ==
    [type |-> "response", code |-> code, has_response |-> TRUE, body |-> body]
FetchHTTPError(code, has_response, body) ==
    [type |-> "HTTPError", code |-> code, has_response |-> has_response, body |-> body]
FetchException(detail) ==
    [type |-> "Exception", code |-> 0, has_response |-> FALSE, body |-> detail]

\* fetch() raises HTTPError for a response whose code is not 2xx
fetch_outcome(code, body) ==
    IF code >= 200 /\ code < 300 THEN FetchResponse(code, body)
    ELSE FetchHTTPError(code, TRUE, body)

\* (the handler for HTTPError left out: every exception is unhandled)
http_result_generic(f) ==
    IF f.type = "response" THEN Result(f.code, "{body}", << f.body >>)
    ELSE Result(599, "Unhandled exception %s", << f.body >>)

\* lines 75-84: (code, reason) from the outcome of the fetch
http_result(f) ==
    CASE f.type = "response" -> Result(f.code, "{body}", << f.body >>)
      [] f.type = "HTTPError" ->
            Result(f.code, "{body}", << IF f.has_response THEN f.body ELSE "" >>)
      [] OTHER -> Result(599, "Unhandled exception %s", << f.body >>)

(* ------------------------------------------------------------------ *)
(* check_smtp: judging the QUIT reply                                  *)
(* ------------------------------------------------------------------ *)
\* lines 161-162 and 180-183 on the line read after QUIT: the value returned or the
\* exception raised
smtp_quit_outcome(quit_response, elapsed) ==
    LET text == decode_utf8(quit_response)
    IN  IF text = DecodeError THEN Exc("UnicodeDecodeError")
        ELSE IF split(text) = << >> THEN Exc("IndexError")
        ELSE IF split(text)[1] # Str221
             THEN Result(503, "Got unexpected QUIT response {0!r}", << quit_response >>)
        ELSE Result(200, "Connected in %.2fs", << elapsed >>)

\* b'220 ok\r\n'
Line220 == << 50, 50, 48, 32, 111, 107, CR, LF >>
\* b'221 bye\r\n'
Line221 == << 50, 50, 49, 32, 98, 121, 101, CR, LF >>
\* b'500 error\r\n'
Line500 == << 53, 48, 48, 32, 101, 114, 114, 111, 114, CR, LF >>
\* b'\r\n'
LineEmpty == << CR, LF >>
\* b'\xff\r\n'
LineFF == << 255, CR, LF >>
\* b'221 bye' with the line end still to come
Part221 == << 50, 50, 49, 32, 98, 121, 101 >>

\* what the peer may send in one piece
PeerChunks == { Line220, Line221, Line500, LineEmpty, LineFF, Part221 }

(* ------------------------------------------------------------------ *)
(* State                                                               *)
(* ------------------------------------------------------------------ *)
VARIABLES
    now,        \* time.time()
    config,     \* config.config
    spoolState, \* what spool.is_up answers at this moment
    calls,      \* number of calls issued so far
    cst,        \* per caller: "idle", "wait", "returned", "raised"
    creq,       \* per caller: the request of its latest call
    cres,       \* per caller: the result (or exception) of its latest call
    via,        \* per caller: how its latest call was served
    probe,      \* per caller: the checker invocation its call started
    cache,      \* the cache: key -> stored result and its time
    inflight,   \* the cache: key -> the pending invocation
    latest      \* history: key -> the latest result a checker returned, and when

vars == << now, config, spoolState, calls, cst, creq, cres, via, probe, cache, inflight,
           latest >>

\* the identity of a call for the cache
Key(r) ==
    << r.kind, r.service_name, r.port, r.query, r.query_params,
       [n \in (DOMAIN r.headers) \cap config.http_headers_to_copy |-> r.headers[n]] >>

IdleProbe ==
    [pc |-> "idle", kind |-> None, start |-> 0, stream |-> "none",
     rbuf |-> << >>, sends |-> 0, greeted |-> FALSE, quit_written |-> FALSE,
     conn |-> "none", peer_closed |-> "none", connected |-> FALSE, connect_elapsed |-> 0,
     sock_error |-> FALSE, fetches |-> 0, upstream |-> 0, timed_out |-> FALSE,
     reply |-> << >>, request |-> None, req |-> None, fetched |-> NoFetch,
     out |-> NoResult]

NoVia ==
    [how |-> "none", entry |-> "absent", stored |-> NoResult, pending |-> FALSE,
     owner |-> 0, queries |-> 0, spool |-> None]

Active(pr) == pr.pc \notin {"idle", "returned", "raised"}
Ended(pr) == pr.pc \in {"returned", "raised"}

\* the suspension points that a timer of TIMEOUT seconds guards
TimedPcs == {"tcp_connect", "smtp_connect", "mysql_connect", "mysql_quit", "http_fetch"}

TimerDue(pr) == pr.pc \in TimedPcs /\ now >= pr.start + TIMEOUT

\* the state after start-up with one of the configurations C
InitConfig(C) ==
    /\ now = 0
    /\ config \in C
    /\ spoolState = SpoolEmpty
    /\ calls = 0
    /\ cst = [c \in Callers |-> "idle"]
    /\ creq = [c \in Callers |-> None]
    /\ cres = [c \in Callers |-> NoResult]
    /\ via = [c \in Callers |-> NoVia]
    /\ probe = [c \in Callers |-> IdleProbe]
    /\ cache = [k \in {} |-> NoResult]
    /\ inflight = [k \in {} |-> 0]
    /\ latest = [k \in {} |-> NoResult]

Init == InitConfig(Configs)

(* ------------------------------------------------------------------ *)
(* The cache that decorates the checkers                               *)
(* ------------------------------------------------------------------ *)
Expired(e) == now > e.createdAt + TTL

Without(f, k) == [x \in (DOMAIN f) \ {k} |-> f[x]]

\* (a finally block that closes nothing)
FinallyNoClose(stream) == stream

\* the finally blocks of check_tcp and check_smtp
FinallyClose(stream) == IF stream # "none" THEN "closed" ELSE stream

\* a closed stream keeps no read buffer
Buffer(stream, rbuf) == IF stream = "closed" THEN << >> ELSE rbuf

\* an invocation ends by returning `out` (or raising it, when out.code = -1)
\* (its locals connect_start and the like are gone with it)
End(pr, out) ==
    [pr EXCEPT !.pc = IF out.code = -1 THEN "raised" ELSE "returned", !.out = out,
               !.start = 0, !.sends = 0]

\* the same for check_tcp and check_smtp, whose finally block runs first
EndStream(pr, out) ==
    End([pr EXCEPT !.stream = FinallyClose(pr.stream),
                   !.rbuf = Buffer(FinallyClose(pr.stream), pr.rbuf)], out)

\* invocation p moves to pr; when that ends it, the callers attached to it get its
\* outcome and the cache stores a returned result
Step(p, pr) ==
    LET W == { c \in Callers : cst[c] = "wait" /\ via[c].owner = p }
        k == Key(probe[p].req)
        owned == k \in DOMAIN inflight /\ inflight[k] = p
    IN  /\ probe' = [probe EXCEPT ![p] = pr]
        /\ IF Ended(pr)
           THEN /\ cst' = [c \in Callers |-> IF c \in W THEN pr.pc ELSE cst[c]]
                /\ cres' = [c \in Callers |-> IF c \in W THEN pr.out ELSE cres[c]]
                /\ inflight' = IF owned THEN Without(inflight, k) ELSE inflight
                /\ cache' = IF owned /\ pr.pc = "returned"
                            THEN Update(cache, [x \in {k} |->
                                     [result |-> pr.out, createdAt |-> now]])
                            ELSE cache
           ELSE UNCHANGED << cst, cres, inflight, cache >>
        /\ latest' = IF pr.pc = "returned" /\ pr.kind # "spool"
                     THEN Update(latest, [x \in {k} |-> [result |-> pr.out, at |-> now]])
                     ELSE latest
        /\ UNCHANGED << now, config, spoolState, calls, creq, via >>

(* ------------------------------------------------------------------ *)
(* The checkers up to their first suspension point                     *)
(* ------------------------------------------------------------------ *)
check_mysql_start(pr) ==
    IF config.mysql_username = None \/ config.mysql_password = None
    THEN End(pr, Result(500, "No MySQL username/pasword in config file", << >>))
    ELSE [pr EXCEPT !.pc = "mysql_connect", !.conn = "open"]

StartProbe(r) ==
    LET pr == [IdleProbe EXCEPT !.kind = r.kind, !.start = now, !.req = r]
    IN  CASE r.kind = "spool" -> End(pr, check_spool(spoolState))
          [] r.kind \in {"http", "https"} ->
                [pr EXCEPT !.pc = "http_fetch", !.request = HTTPRequest(config, r),
                           !.fetches = 1]
          [] r.kind = "tcp" -> [pr EXCEPT !.pc = "tcp_connect", !.stream = "open"]
          [] r.kind = "smtp" -> [pr EXCEPT !.pc = "smtp_connect", !.stream = "open"]
          [] r.kind = "mysql" -> check_mysql_start(pr)

\* how old the stored entry for key k is, as the caller finds it
EntryAge(k) ==
    IF k \notin DOMAIN latest THEN "absent"
    ELSE IF now < latest[k].at + TTL THEN "fresh"
    ELSE IF now > latest[k].at + TTL THEN "stale"
    ELSE "edge"

\* caller c issues request r
Call(c, r) ==
    LET cached == r.kind \in Cacheable
        k == Key(r)
        hit == cached /\ k \in DOMAIN cache /\ ~Expired(cache[k])
        join == cached /\ ~hit /\ k \in DOMAIN inflight
        pr == StartProbe(r)
        v == [NoVia EXCEPT !.entry = EntryAge(k),
                           !.stored = IF k \in DOMAIN latest THEN latest[k].result
                                      ELSE NoResult,
                           !.pending = \E p \in Callers : Active(probe[p])
                                           /\ Key(probe[p].req) = k,
                           !.spool = IF r.kind = "spool" THEN spoolState ELSE None]
    IN  /\ cst[c] # "wait"
        /\ calls < MaxCalls
        \* callers are interchangeable: they enter in the order of their numbers
        /\ \A d \in Callers : d < c => cst[d] # "idle"
        /\ calls' = calls + 1
        /\ creq' = [creq EXCEPT ![c] = r]
        /\ IF hit
           THEN /\ cst' = [cst EXCEPT ![c] = "returned"]
                /\ cres' = [cres EXCEPT ![c] = cache[k].result]
                /\ via' = [via EXCEPT ![c] = [v EXCEPT !.how = "hit"]]
                /\ UNCHANGED << probe, cache, inflight, latest >>
           ELSE IF join
           THEN /\ cst' = [cst EXCEPT ![c] = "wait"]
                /\ cres' = [cres EXCEPT ![c] = NoResult]
                /\ via' = [via EXCEPT ![c] =
                              [v EXCEPT !.how = "join", !.owner = inflight[k]]]
                /\ UNCHANGED << probe, cache, inflight, latest >>
           ELSE /\ probe' = [probe EXCEPT ![c] = pr]
                /\ via' = [via EXCEPT ![c] =
                      [v EXCEPT !.how = "probe", !.owner = c,
                                !.queries = IF r.kind = "spool" THEN 1 ELSE 0]]
                /\ cst' = [cst EXCEPT ![c] = IF Ended(pr) THEN pr.pc ELSE "wait"]
                /\ cres' = [cres EXCEPT ![c] = pr.out]
                /\ inflight' = IF cached /\ ~Ended(pr)
                               THEN Update(inflight, [x \in {k} |-> c]) ELSE inflight
                /\ cache' = IF cached /\ pr.pc = "returned"
                            THEN Update(cache, [x \in {k} |->
                                     [result |-> pr.out, createdAt |-> now]])
                            ELSE cache
                /\ latest' = IF pr.pc = "returned" /\ pr.kind # "spool"
                             THEN Update(latest, [x \in {k} |->
                                      [result |-> pr.out, at |-> now]])
                             ELSE latest
        /\ UNCHANGED << now, config, spoolState >>

(* ------------------------------------------------------------------ *)
(* check_tcp                                                           *)
(* ------------------------------------------------------------------ *)
Elapsed(pr) == now - pr.start

\* the connect completes and with_timeout drops its timer (once the timer is due the loop
\* runs it first, and with_timeout raises); the coroutine is still to be resumed
TcpConnected(p) ==
    /\ probe[p].pc = "tcp_connect"
    /\ ~TimerDue(probe[p])
    /\ Step(p, [probe[p] EXCEPT !.pc = "tcp_resume", !.connected = TRUE,
                               !.connect_elapsed = Elapsed(probe[p])])

\* the loop resumes the coroutine after the yield: the finally block, then the last
\* statement, which reads the clock
TcpReturn(p) ==
    /\ probe[p].pc = "tcp_resume"
    /\ Step(p, EndStream(probe[p],
                  Result(200, "Connected in %.2fs", << Elapsed(probe[p]) >>)))

\* (the TimeoutError swallowed: the function runs on to its last line)
TcpTimeoutSwallowed(p) ==
    /\ probe[p].pc = "tcp_connect"
    /\ TimerDue(probe[p])
    /\ Step(p, EndStream([probe[p] EXCEPT !.timed_out = TRUE],
                  Result(200, "Connected in %.2fs", << Elapsed(probe[p]) >>)))

\* with_timeout raises TimeoutError
TcpTimeout(p) ==
    /\ probe[p].pc = "tcp_connect"
    /\ TimerDue(probe[p])
    /\ Step(p, EndStream([probe[p] EXCEPT !.timed_out = TRUE],
                  Result(503, "Connection timed out after %.2fs", << Elapsed(probe[p]) >>)))

\* (the socket error reported as an unclassified exception)
TcpSockError599(p) ==
    /\ probe[p].pc = "tcp_connect"
    /\ Step(p, EndStream(probe[p],
                  Result(599, "Unhandled exception %s", << "ECONNREFUSED" >>)))

\* the connect raises socket.error
TcpSockError(p) ==
    /\ probe[p].pc = "tcp_connect"
    /\ Step(p, EndStream([probe[p] EXCEPT !.sock_error = TRUE],
                  Result(503, "Unexpected error %s after %2fs",
                         << "ECONNREFUSED", Elapsed(probe[p]) >>)))

(* ------------------------------------------------------------------ *)
(* check_smtp                                                          *)
(* ------------------------------------------------------------------ *)
SmtpConnectedPcs == {"smtp_greeting", "smtp_write", "smtp_quit"}

\* the coroutine runs on as far as the bytes received allow
SmtpResume(pr) ==
    IF pr.pc = "smtp_greeting" /\ HasLine(pr.rbuf)
    THEN [pr EXCEPT !.pc = "smtp_write", !.greeted = TRUE,
                    !.rbuf = ReadUntilRest(pr.rbuf)]
    ELSE IF pr.pc = "smtp_quit" /\ HasLine(pr.rbuf)
    THEN EndStream([pr EXCEPT !.rbuf = ReadUntilRest(pr.rbuf),
                              !.reply = ReadUntilLine(pr.rbuf)],
                   smtp_quit_outcome(ReadUntilLine(pr.rbuf), Elapsed(pr)))
    ELSE pr

SmtpConnected(p) ==
    /\ probe[p].pc = "smtp_connect"
    /\ ~TimerDue(probe[p])
    /\ Step(p, SmtpResume([probe[p] EXCEPT !.pc = "smtp_greeting", !.connected = TRUE]))

SmtpTimeout(p) ==
    /\ probe[p].pc = "smtp_connect"
    /\ TimerDue(probe[p])
    /\ Step(p, EndStream([probe[p] EXCEPT !.timed_out = TRUE],
                  Result(503, "Connection timed out after %.2fs", << Elapsed(probe[p]) >>)))

\* the peer sends bytes (it sends no more while a whole line is still unread)
PeerSend(p, chunk) ==
    /\ probe[p].pc \in SmtpConnectedPcs
    /\ probe[p].sends < MaxSends
    /\ ~HasLine(probe[p].rbuf)
    /\ Step(p, SmtpResume([probe[p] EXCEPT !.rbuf = @ \o chunk, !.sends = @ + 1]))

\* b'QUIT\r\n' has been written
SmtpWritten(p) ==
    /\ probe[p].pc = "smtp_write"
    /\ Step(p, SmtpResume([probe[p] EXCEPT !.pc = "smtp_quit", !.quit_written = TRUE]))

\* (no handler for StreamClosedError: it leaves the coroutine)
PeerCloseUncaught(p) ==
    /\ probe[p].pc \in SmtpConnectedPcs
    /\ Step(p, EndStream([probe[p] EXCEPT !.peer_closed = probe[p].pc],
                  Exc("StreamClosedError")))

\* the peer closes the connection: the pending read or write raises StreamClosedError
PeerClose(p) ==
    /\ probe[p].pc \in SmtpConnectedPcs
    /\ Step(p, EndStream([probe[p] EXCEPT !.peer_closed = probe[p].pc],
                  Result(503, "Peer unexpectedly closed connection", << >>)))

\* the connect, a read or the write raises socket.error
SmtpSockError(p) ==
    /\ probe[p].pc \in SmtpConnectedPcs \cup {"smtp_connect"}
    /\ Step(p, EndStream([probe[p] EXCEPT !.sock_error = TRUE],
                  Result(503, "Unexpected socket error %s after %2fs",
                         << "ECONNRESET", Elapsed(probe[p]) >>)))

(* ------------------------------------------------------------------ *)
(* check_mysql                                                         *)
(* ------------------------------------------------------------------ *)
\* conn.connect answers
MysqlConnected(p, ok) ==
    /\ probe[p].pc = "mysql_connect"
    /\ Step(p, IF ok THEN [probe[p] EXCEPT !.pc = "mysql_quit"]
               ELSE End(probe[p], Result(500, "MySQL sez %s", << "ERR" >>)))

\* conn.quit is done
MysqlQuitDone(p) ==
    /\ probe[p].pc = "mysql_quit"
    /\ Step(p, End([probe[p] EXCEPT !.conn = "quit"],
                  Result(200, "MySQL connect response: %s", << "OK" >>)))

\* the client's global_timeout expires during connect or quit
MysqlTimeout(p) ==
    /\ probe[p].pc \in {"mysql_connect", "mysql_quit"}
    /\ TimerDue(probe[p])
    /\ Step(p, End([probe[p] EXCEPT !.timed_out = TRUE, !.conn = "closed"],
                  Exc("MySQLTimeout")))

(* ------------------------------------------------------------------ *)
(* check_http_https after the fetch                                    *)
(* ------------------------------------------------------------------ *)
\* the fetch is over with outcome f
HttpEnd(pr, f) == End([pr EXCEPT !.fetched = f], http_result(f))

\* the target (or, when redirects are followed, the redirect target) answers
HttpRespond(p, code, body) ==
    LET pr == [probe[p] EXCEPT !.upstream = IF probe[p].fetches = 1 THEN code ELSE @]
    IN  /\ probe[p].pc = "http_fetch"
        /\ Step(p, IF pr.request.follow_redirects /\ code >= 300 /\ code < 400
                      /\ pr.fetches <= 5
                   THEN [pr EXCEPT !.fetches = @ + 1]
                   ELSE HttpEnd(pr, fetch_outcome(code, body)))

\* request_timeout expires: HTTPError(599) that carries no response
HttpTimeout(p) ==
    /\ probe[p].pc = "http_fetch"
    /\ TimerDue(probe[p])
    /\ Step(p, HttpEnd([probe[p] EXCEPT !.timed_out = TRUE],
                       FetchHTTPError(599, FALSE, "")))

\* the fetch raises anything else
HttpFail(p) ==
    /\ probe[p].pc = "http_fetch"
    /\ Step(p, HttpEnd(probe[p], FetchException("error")))

(* ------------------------------------------------------------------ *)
(* The environment                                                     *)
(* ------------------------------------------------------------------ *)
\* time passes; a timer that is due fires before more time passes
Tick ==
    /\ now + TickStep <= MaxClock
    /\ (calls < MaxCalls) \/ (\E p \in Callers : Active(probe[p]))
    /\ \A p \in Callers : ~TimerDue(probe[p])
    /\ now' = now + TickStep
    /\ UNCHANGED << config, spoolState, calls, cst, creq, cres, via, probe, cache, inflight,
                    latest >>

\* an operator marks the service up or down
SetSpool(s) ==
    /\ s # spoolState
    /\ calls < MaxCalls
    /\ spoolState' = s
    /\ UNCHANGED << now, config, calls, cst, creq, cres, via, probe, cache, inflight,
                    latest >>

\* the callers issue checks of the kinds K
Calls(K) == \E c \in Callers, r \in Requests : r.kind \in K /\ Call(c, r)

TcpSteps ==
    \/ \E p \in Callers : TcpConnected(p)
    \/ \E p \in Callers : TcpReturn(p)
    \/ \E p \in Callers : TcpTimeout(p)
    \/ \E p \in Callers : TcpSockError(p)

SmtpSteps ==
    \/ \E p \in Callers : SmtpConnected(p)
    \/ \E p \in Callers : SmtpTimeout(p)
    \/ \E p \in Callers, chunk \in PeerChunks : PeerSend(p, chunk)
    \/ \E p \in Callers : SmtpWritten(p)
    \/ \E p \in Callers : PeerClose(p)
    \/ \E p \in Callers : SmtpSockError(p)

MysqlSteps ==
    \/ \E p \in Callers, ok \in BOOLEAN : MysqlConnected(p, ok)
    \/ \E p \in Callers : MysqlQuitDone(p)
    \/ \E p \in Callers : MysqlTimeout(p)

HttpSteps ==
    \/ \E p \in Callers, code \in HttpCodes, body \in HttpBodies : HttpRespond(p, code, body)
    \/ \E p \in Callers : HttpTimeout(p)
    \/ \E p \in Callers : HttpFail(p)

SpoolSteps == \E s \in SpoolStates : SetSpool(s)

Next ==
    \/ Calls(Kinds)
    \/ TcpSteps
    \/ SmtpSteps
    \/ MysqlSteps
    \/ HttpSteps
    \/ SpoolSteps
    \/ Tick

Spec == Init /\ [][Next]_vars

\* the same system when the callers issue only one family of checks
\* (check_tcp and check_smtp read nothing of the configuration)
InitStream == Init /\ config = ConfigFull

NextTcp == Calls({"tcp"}) \/ TcpSteps \/ Tick
SpecTcp == InitStream /\ [][NextTcp]_vars

NextSmtp == Calls({"smtp"}) \/ SmtpSteps \/ Tick
SpecSmtp == InitStream /\ [][NextSmtp]_vars

NextStream == Calls({"tcp", "smtp"}) \/ TcpSteps \/ SmtpSteps \/ Tick
SpecStream == InitStream /\ [][NextStream]_vars

NextMysql == Calls({"mysql"}) \/ MysqlSteps \/ Tick
SpecMysql == Init /\ [][NextMysql]_vars

NextHttp == Calls({"http", "https"}) \/ HttpSteps \/ Tick
SpecHttp == Init /\ [][NextHttp]_vars

NextSpool == Calls({"spool"}) \/ SpoolSteps \/ Tick
SpecSpool == Init /\ [][NextSpool]_vars

\* the HTTP checker under more headers and configurations, the target answering 200
NextHeaders ==
    \/ \E c \in Callers, r \in HeaderRequests : Call(c, r)
    \/ \E p \in Callers : HttpRespond(p, 200, "")
    \/ Tick
SpecHeaders == InitConfig(HeaderConfigs) /\ [][NextHeaders]_vars

\* the checkers other than HTTP, called by one caller, one check at a time
NextSerial ==
    \/ \E r \in Requests :
          /\ r.kind \in {"tcp", "smtp", "mysql", "spool"}
          /\ Call(1, r)
    \/ TcpSteps
    \/ SmtpSteps
    \/ MysqlSteps
    \/ \E s \in SpoolStates : ~Active(probe[1]) /\ spoolState = SpoolEmpty /\ SetSpool(s)
    \/ Tick
SpecSerial == Init /\ [][NextSerial]_vars

(* ------------------------------------------------------------------ *)
(* Properties                                                          *)
(* ------------------------------------------------------------------ *)
SameResult(a, b) == a.code = b.code /\ a.msg = b.msg /\ a.args = b.args

\* the checks that the cache covers
CachedKinds == {"http", "https", "tcp", "mysql", "smtp"}

\* C1: every checker invocation has completed once its TIMEOUT deadline has passed
\* (TIMEOUT plus the clock's resolution), whatever the target does; a peer that
\* accepts the connection and then stays silent must not keep it pending.
C1_CompletesByDeadline ==
    \A p \in Callers :
        Active(probe[p]) => now < probe[p].start + TIMEOUT + TickStep

\* C2: no checker invocation ends in a raised exception: whatever the network steps
\* do and whatever bytes the peer sends, it ends by returning (code, reason).
C2_NeverRaises ==
    \A p \in Callers : probe[p].pc # "raised" /\ cst[p] # "raised"

\* at most one invocation is in flight for a key, and each waiting caller has one
OneProbePerKey ==
    /\ \A p, q \in Callers :
          (p # q /\ Active(probe[p]) /\ Active(probe[q])
             /\ probe[p].kind \in CachedKinds /\ probe[q].kind \in CachedKinds)
          => Key(probe[p].req) # Key(probe[q].req)
    /\ \A c \in Callers :
          cst[c] = "wait" =>
             \E p \in Callers : Active(probe[p]) /\ Key(probe[p].req) = Key(creq[c])

\* C3: concurrent callers of the same cacheable check share one probe: never are two
\* probes for one key in flight, every waiting caller has a probe in flight for its
\* key, and the callers waiting on a key all get the same outcome at the same time.
C3_Coalesced ==
    [][ /\ OneProbePerKey'
        /\ \A c, d \in Callers :
              (cst[c] = "wait" /\ cst[d] = "wait" /\ Key(creq[c]) = Key(creq[d])
                 /\ cst'[c] # "wait")
              => (cst'[d] = cst'[c] /\ SameResult(cres'[d], cres'[c])) ]_vars

\* C3 happens: a second caller joined the probe of the first, and both have its result
C3_Witness ==
    \E c, d \in Callers :
        /\ c # d
        /\ via[c].how = "probe" /\ via[d].how = "join" /\ via[d].owner = c
        /\ cst[c] = "returned" /\ cst[d] = "returned"
        /\ creq[c].kind \in CachedKinds /\ Key(creq[c]) = Key(creq[d])
        /\ SameResult(cres[c], cres[d])

\* C4 as stated: a call before t+TTL returns the stored result without a probe, and
\* a call after t+TTL starts a new probe.
C4_Original ==
    \A c \in Callers :
        (cst[c] # "idle" /\ creq[c].kind \in CachedKinds) =>
            /\ via[c].entry = "fresh" =>
                  (via[c].how = "hit" /\ cst[c] = "returned"
                     /\ SameResult(cres[c], via[c].stored))
            /\ via[c].entry = "stale" => via[c].how = "probe"

\* C4, amended: a call before t+TTL returns the stored result without a probe; a call
\* after t+TTL is a miss: it starts a new probe, unless a probe for the key is
\* already in flight, which it then joins.
C4_Amended ==
    \A c \in Callers :
        (cst[c] # "idle" /\ creq[c].kind \in CachedKinds) =>
            /\ via[c].entry = "fresh" =>
                  (via[c].how = "hit" /\ cst[c] = "returned"
                     /\ SameResult(cres[c], via[c].stored))
            /\ via[c].entry = "stale" =>
                  IF via[c].pending THEN via[c].how = "join" ELSE via[c].how = "probe"

\* C4 happens: a caller found a stale entry and joined the probe another caller had
\* started for it, while some caller was served a fresh entry
C4_Witness ==
    /\ \E c \in Callers : via[c].entry = "stale" /\ via[c].how = "join"
    /\ \E c \in Callers : via[c].entry = "stale" /\ via[c].how = "probe"

\* C5: check_spool is never served from a cache: each call asks spool.is_up once and
\* its result is the one of the spool state at the moment of the call.
C5_SpoolLive ==
    \A c \in Callers :
        (cst[c] # "idle" /\ creq[c].kind = "spool") =>
            /\ cst[c] = "returned"
            /\ via[c].queries = 1
            /\ SameResult(cres[c], check_spool(via[c].spool))

\* C5 happens: two spool checks, the spool state changed between them, and each
\* reports its own state
C5_Witness ==
    \E c, d \in Callers :
        /\ cst[c] = "returned" /\ cst[d] = "returned"
        /\ creq[c].kind = "spool" /\ creq[d].kind = "spool"
        /\ via[c].spool.up /\ ~via[d].spool.up
        /\ cres[c].code = 200 /\ cres[d].code = 503
        /\ ~spoolState.up

\* C6: when an invocation of check_tcp or check_smtp has ended, on whatever path
\* (result or uncaught exception), its stream is closed.
C6_StreamClosed ==
    \A p \in Callers :
        (Ended(probe[p]) /\ probe[p].kind \in {"tcp", "smtp"}) =>
            probe[p].stream = "closed"

\* C6 happens: a check_smtp left by an uncaught exception and a check_tcp that
\* timed out, both with their streams closed
C6_Witness ==
    /\ \E p \in Callers : probe[p].kind = "smtp" /\ probe[p].pc = "raised"
                            /\ probe[p].stream = "closed"
    /\ \E p \in Callers : probe[p].kind = "tcp" /\ probe[p].timed_out
                            /\ probe[p].stream = "closed"

\* C7: check_mysql without a configured username or password returns
\* (500, "No MySQL username/password in config file") and creates no client.
C7_NoCredentials ==
    \A p \in Callers :
        (probe[p].kind = "mysql"
           /\ (config.mysql_username = None \/ config.mysql_password = None)) =>
            /\ probe[p].pc = "returned"
            /\ probe[p].out.code = 500
            /\ probe[p].out.msg = "No MySQL username/password in config file"
            /\ probe[p].conn = "none"

\* the leading whitespace-delimited token of the line is '221'
Leads221(line) ==
    /\ decode_utf8(line) # DecodeError
    /\ split(decode_utf8(line)) # << >>
    /\ split(decode_utf8(line))[1] = Str221

\* C8: check_smtp returns 200 exactly when the connect completed, a greeting was
\* read, QUIT was written and the reply line leads with '221'; for any other whole
\* reply line it returns (503, 'Got unexpected QUIT response <raw>').
C8_QuitReply ==
    \A p \in Callers :
        (probe[p].kind = "smtp" /\ Ended(probe[p])) =>
            /\ probe[p].out.code = 200 <=>
                  (probe[p].greeted /\ probe[p].quit_written
                     /\ probe[p].reply # << >> /\ Leads221(probe[p].reply))
            /\ (probe[p].reply # << >> /\ ~Leads221(probe[p].reply)) =>
                  /\ probe[p].out.code = 503
                  /\ probe[p].out.msg = "Got unexpected QUIT response {0!r}"
                  /\ probe[p].out.args = << probe[p].reply >>

\* C9: the HTTP checker sends one request per invocation and follows no redirect:
\* when the target answers 3xx, the result carries that code.
C9_NoRedirect ==
    \A p \in Callers :
        probe[p].kind \in {"http", "https"} =>
            /\ probe[p].fetches = 1
            /\ ~probe[p].request.follow_redirects
            /\ (Ended(probe[p]) /\ probe[p].upstream >= 300 /\ probe[p].upstream < 400)
                  => probe[p].out.code = probe[p].upstream

\* C9 happens: the target answered 302 and the check returned 302 after one request
C9_Witness ==
    \E p \in Callers :
        /\ probe[p].kind \in {"http", "https"} /\ probe[p].pc = "returned"
        /\ probe[p].upstream = 302 /\ probe[p].out.code = 302 /\ probe[p].fetches = 1

\* C10: when the timeout expires during the MySQL connect or quit, check_mysql
\* returns (503, 'MySQL timed out after <elapsed>s').
C10_MysqlTimeout ==
    \A p \in Callers :
        (probe[p].kind = "mysql" /\ probe[p].timed_out) =>
            /\ probe[p].pc = "returned"
            /\ probe[p].out.code = 503
            /\ probe[p].out.msg = "MySQL timed out after %.2fs"

\* C11: the HTTP/HTTPS checker maps the outcome of its fetch to the result: a response
\* gives (response code, response body); an HTTPError gives (its code, the body of its
\* response, or '' when it carries none); any other exception gives
\* (599, 'Unhandled exception <detail>'). The code the target answered is the code
\* of the result.
C11_FetchMapping ==
    \A p \in Callers :
        (probe[p].kind \in {"http", "https"} /\ Ended(probe[p])) =>
            LET f == probe[p].fetched
                out == probe[p].out
            IN  /\ probe[p].pc = "returned"
                /\ f.type \in {"response", "HTTPError", "Exception"}
                /\ f.type = "response" =>
                      out.code = f.code /\ out.msg = "{body}" /\ out.args = << f.body >>
                /\ (f.type = "HTTPError" /\ f.has_response) =>
                      out.code = f.code /\ out.msg = "{body}" /\ out.args = << f.body >>
                /\ (f.type = "HTTPError" /\ ~f.has_response) =>
                      out.code = f.code /\ out.msg = "{body}" /\ out.args = << "" >>
                /\ f.type = "Exception" =>
                      /\ out.code = 599
                      /\ out.msg = "Unhandled exception %s"
                      /\ out.args = << f.body >>
                /\ probe[p].upstream # 0 => out.code = probe[p].upstream

\* C11 happens: the client raised HTTPError for a 503 answer with a body, and the check
\* returned (503, that body)
C11_Witness ==
    \E p \in Callers :
        /\ probe[p].kind \in {"http", "https"} /\ probe[p].pc = "returned"
        /\ probe[p].fetched = FetchHTTPError(503, TRUE, "body")
        /\ probe[p].upstream = 503
        /\ probe[p].out = Result(503, "{body}", << "body" >>)

\* C12: in check_mysql with credentials configured, a handshake that reports OK is
\* followed by quit(), which completes before (200, 'MySQL connect response: <detail>')
\* is returned; a handshake that reports not-OK gives (500, 'MySQL sez <detail>'); on
\* both paths the connection the invocation opened is released when it ends.
C12_MysqlPaths ==
    \A p \in Callers :
        (probe[p].kind = "mysql" /\ probe[p].pc = "returned" /\ probe[p].conn # "none") =>
            /\ probe[p].out.code \in {200, 500}
            /\ probe[p].out.code = 200 =>
                  /\ probe[p].out.msg = "MySQL connect response: %s"
                  /\ probe[p].conn = "quit"
            /\ probe[p].out.code = 500 => probe[p].out.msg = "MySQL sez %s"
            /\ probe[p].conn \in {"quit", "closed"}

\* C13: in check_smtp, when the peer closes the stream at a read or a write after the
\* connect (while the greeting is awaited, while QUIT is being written, or while the
\* QUIT reply is awaited), the result is (503, 'Peer unexpectedly closed connection').
C13_PeerClosed ==
    \A p \in Callers :
        (probe[p].kind = "smtp" /\ probe[p].peer_closed # "none") =>
            /\ probe[p].pc = "returned"
            /\ probe[p].out = Result(503, "Peer unexpectedly closed connection", << >>)
            /\ via[p].how = "probe" =>
                  cst[p] = "returned" /\ cres[p].code = 503 /\ cres[p].code # 200

\* C13 happens: the peer greeted, QUIT was written, and the peer closed the stream
\* before the QUIT reply; the caller got the 503 result
C13_Witness ==
    \E p \in Callers :
        /\ probe[p].kind = "smtp" /\ probe[p].peer_closed = "smtp_quit"
        /\ probe[p].greeted /\ probe[p].quit_written
        /\ cst[p] = "returned" /\ via[p].how = "probe"
        /\ cres[p] = Result(503, "Peer unexpectedly closed connection", << >>)

\* a field of the spool info is present: the info has it, and it is not None
Present(info, key) == key \in DOMAIN info /\ info[key] # None

\* the clause of a field, when `has` says the field counts
Clause(info, key, fmt, has) == IF has THEN << fmt, info[key] >> ELSE << >>

\* what a spool check answers for the state st, the reason clause being there when
\* reasonCounts says so
SpoolAnswer(st, reasonCounts) ==
    IF st.up
    THEN Result(200, "%s", << IF Present(st.info, "reason") THEN st.info["reason"] ELSE "" >>)
    ELSE Result(503, "Service %s in down state",
                << st.info["service"] >>
                \o Clause(st.info, "creation", " since %f", Present(st.info, "creation"))
                \o Clause(st.info, "expiration", " until %f", Present(st.info, "expiration"))
                \o Clause(st.info, "reason", ": %s", reasonCounts))

\* C14 as stated: check_spool answers 503 and 'Service <name> in down state' followed
\* by ' since <creation>', ' until <expiration>', ': <reason>' in that order, each
\* clause there if and only if its field is present in the spool info; for a service
\* that is up it answers 200 with the reason, or '' when there is none.
C14_Original ==
    \A c \in Callers :
        (cst[c] = "returned" /\ creq[c].kind = "spool") =>
            cres[c] = SpoolAnswer(via[c].spool, Present(via[c].spool.info, "reason"))

\* C14, amended: as above, except that the clause ': <reason>' is there if and only
\* if the reason is present and is not the empty string.
C14_Amended ==
    \A c \in Callers :
        (cst[c] = "returned" /\ creq[c].kind = "spool") =>
            cres[c] = SpoolAnswer(via[c].spool,
                          Present(via[c].spool.info, "reason")
                            /\ via[c].spool.info["reason"] # "")

\* C14 happens: a service down with all fields gave the three clauses in order, and a
\* service down with an empty reason gave none
C14_Witness ==
    /\ \E c \in Callers :
          /\ cst[c] = "returned" /\ creq[c].kind = "spool"
          /\ DOMAIN via[c].spool.info = {"service", "creation", "expiration", "reason"}
          /\ cres[c] = Result(503, "Service %s in down state",
                           << "svc", " since %f", "100.0", " until %f", "200.0",
                              ": %s", "maint" >>)
    /\ \E c \in Callers :
          /\ cst[c] = "returned" /\ creq[c].kind = "spool"
          /\ DOMAIN via[c].spool.info = {"service", "reason"}
          /\ cres[c] = Result(503, "Service %s in down state", << "svc" >>)

\* the header names that may go out for request r
AllowedOut(r) ==
    {"User-Agent"} \cup (config.http_headers_to_copy \cap DOMAIN r.headers)
        \cup (IF truthy(config.service_name_header) THEN {config.service_name_header}
              ELSE {})

\* C15 as stated: the outbound header names are within {User-Agent}, the allow-listed
\* names present inbound and the service-name header; every allow-listed header
\* present inbound goes out with the caller's value; the service-name header, when
\* configured, carries the service name.
C15_Original ==
    \A p \in Callers :
        probe[p].kind \in {"http", "https"} =>
            LET h == probe[p].request.headers
                r == probe[p].req
            IN  /\ DOMAIN h \subseteq AllowedOut(r)
                /\ \A n \in config.http_headers_to_copy \cap DOMAIN r.headers :
                      n \in DOMAIN h /\ h[n] = r.headers[n]
                /\ truthy(config.service_name_header) =>
                      /\ config.service_name_header \in DOMAIN h
                      /\ h[config.service_name_header] = r.service_name

\* C15, amended: as above, except that an allow-listed header that is also the
\* configured service-name header goes out with the service name, not the caller's
\* value.
C15_Amended ==
    \A p \in Callers :
        probe[p].kind \in {"http", "https"} =>
            LET h == probe[p].request.headers
                r == probe[p].req
            IN  /\ DOMAIN h \subseteq AllowedOut(r)
                /\ \A n \in config.http_headers_to_copy \cap DOMAIN r.headers :
                      /\ n \in DOMAIN h
                      /\ n # config.service_name_header => h[n] = r.headers[n]
                /\ truthy(config.service_name_header) =>
                      /\ config.service_name_header \in DOMAIN h
                      /\ h[config.service_name_header] = r.service_name

\* C15 happens: with X-Fwd and X-Svc on the allow-list and X-Svc the service-name
\* header, a call with X-Fwd, X-Svc, Cookie and User-Agent inbound sent X-Fwd with
\* the caller's value, X-Svc with the service name, and no Cookie
C15_Witness ==
    \E p \in Callers :
        /\ probe[p].kind = "http" /\ probe[p].pc = "returned"
        /\ probe[p].req.headers = HeavyHeaders
        /\ config.http_headers_to_copy = {"X-Fwd", "X-Svc"}
        /\ DOMAIN probe[p].request.headers = {"User-Agent", "X-Fwd", "X-Svc"}
        /\ probe[p].request.headers["User-Agent"] = "hastate"
        /\ probe[p].request.headers["X-Fwd"] = "10.0.0.1"
        /\ probe[p].request.headers["X-Svc"] = "svc"

\* the status codes a checker of the given kind may return
CodesOf(kind) ==
    CASE kind \in {"tcp", "smtp", "spool"} -> {200, 503}
      [] kind = "mysql" -> {200, 500, 503}

\* C16: check_tcp, check_smtp and check_spool return only 200 or 503, and check_mysql
\* only 200, 500 or 503, be the result computed by the invocation or handed to a caller.
C16_CodesConfined ==
    /\ \A p \in Callers :
          (probe[p].pc = "returned" /\ probe[p].kind \in {"tcp", "smtp", "spool", "mysql"})
              => probe[p].out.code \in CodesOf(probe[p].kind)
    /\ \A c \in Callers :
          (cst[c] = "returned" /\ creq[c].kind \in {"tcp", "smtp", "spool", "mysql"})
              => cres[c].code \in CodesOf(creq[c].kind)

\* C16 happens: a MySQL check has returned 500, and then an SMTP check 503 for a QUIT
\* reply that was not 221
C16_Witness ==
    /\ \E k \in DOMAIN cache : k[1] = "mysql" /\ cache[k].result.code = 500
    /\ cst[1] = "returned" /\ creq[1].kind = "smtp" /\ cres[1].code = 503
    /\ cres[1].msg = "Got unexpected QUIT response {0!r}"

\* C17: check_tcp returns 200 only when its connect completed less than TIMEOUT after
\* its start and no timeout was raised; when the caller has the 200 result the stream
\* is closed; a connect that timed out or raised a socket error never gives 200.
C17_TcpOk ==
    \A p \in Callers :
        (probe[p].kind = "tcp" /\ Ended(probe[p])) =>
            /\ probe[p].out.code = 200 =>
                  /\ probe[p].connected
                  /\ probe[p].connect_elapsed < TIMEOUT
                  /\ ~probe[p].timed_out /\ ~probe[p].sock_error
                  /\ probe[p].stream = "closed"
            /\ (probe[p].timed_out \/ probe[p].sock_error) =>
                  probe[p].pc = "returned" /\ probe[p].out.code = 503
            /\ (via[p].how = "probe" /\ cst[p] = "returned" /\ cres[p].code = 200) =>
                  probe[p].stream = "closed" /\ probe[p].connected

\* C17 happens: a connect completed before the deadline, the coroutine was resumed
\* TIMEOUT or more after its start, and the caller has (200, 'Connected in <elapsed>s')
\* with the stream closed
C17_Witness ==
    \E p \in Callers :
        /\ probe[p].kind = "tcp" /\ probe[p].connected /\ probe[p].stream = "closed"
        /\ probe[p].connect_elapsed > 0 /\ probe[p].connect_elapsed < TIMEOUT
        /\ via[p].how = "probe" /\ cst[p] = "returned"
        /\ cres[p].code = 200 /\ cres[p].msg = "Connected in %.2fs"
        /\ cres[p].args[1] >= TIMEOUT

====
